---------------------------- MODULE Spec2Model ----------------------------
(***************************************************************************)
(* The chat assistant of the restroom locator (src/components/Chatbot.tsx). *)
(*                                                                         *)
(* Text is a sequence of one-character strings, so that toLowerCase,       *)
(* trim and includes are computed character by character.  Coordinates    *)
(* are integers counting steps of 1/UnitsPerDegree of a degree, so that    *)
(* sqrt(dlat^2 + dlng^2) * 111 <= r is decided exactly by comparing       *)
(* squares.  A chat message's id and timestamp (Date.now()) are left out:  *)
(* nothing in the component reads them back.                               *)
(***************************************************************************)
EXTENDS Integers, Sequences, FiniteSets

VARIABLES
    staticRestrooms,        \* getAllRestrooms(): the static catalog
    userRestrooms,          \* getUserRestrooms(): user-contributed records
    mounted,                \* the component is mounted
    isOpen,                 \* useState: the chat card is shown
    message,                \* useState: text of the input field
    messages,               \* useState: the transcript
    isListening,            \* useState
    currentLocation,        \* useState
    hasLocationPermission,  \* useState
    geolocation,            \* navigator.geolocation request: "pending" | "done"
    recognition,            \* SpeechRecognition: "idle" | "started" | "ending"
    voiceTimers,            \* setTimeout(..., 500) of onresult: the transcripts
    replyTimers,            \* setTimeout(..., 1000) of processUserQuery: the responses
    triggers,               \* the calls of onFindNearbyRestrooms, in order
    spoken,                 \* the calls of speechSynthesis.speak, in order
    last                    \* the handler that ran last, its inputs and what it did

\* The map (src/components/Map.tsx): Map and the MapUpdater it renders
VARIABLES
    selectedId,             \* Map's prop: the id selected by the parent, or none
    activeId,               \* useState of Map
    userLocation,           \* useState of Map: a GeolocationPosition, or undefined
    positionRequests,       \* calls of getCurrentPosition not yet answered
    directionsRequests,     \* fetches of getRoute not yet answered
    routePath,              \* useState of MapUpdater
    routeDetails,           \* useState of MapUpdater
    toast                   \* title of the toast shown last

chatVars == <<staticRestrooms, userRestrooms, mounted, isOpen, message, messages,
              isListening, currentLocation, hasLocationPermission, geolocation,
              recognition, voiceTimers, replyTimers, triggers, spoken, last>>

mapVars == <<selectedId, activeId, userLocation, positionRequests, directionsRequests,
             routePath, routeDetails, toast>>

vars == <<chatVars, mapVars>>

-----------------------------------------------------------------------------
(* Bounds of the model *)

\* records in the static catalog and the user list together
MaxCandidates == 2
\* messages accepted by handleSendMessage in one behaviour
MaxSends == 2
\* voice results waiting for their 500 ms timer
MaxVoiceTimers == 1
\* calls of getCurrentPosition of the map waiting for their answer
MaxPositionRequests == 2
\* directions fetches of the map waiting for their response
MaxDirectionsRequests == 2

-----------------------------------------------------------------------------
(* Program constants *)

KmPerDegree == 111
NearbyRadiusKm == 2
AttributeRadiusKm == 3
CleanScoreThreshold == 85

\* grid steps per degree: one step is half a kilometre
UnitsPerDegree == 2 * KmPerDegree

-----------------------------------------------------------------------------
(* Text *)

UpperCase == <<"A", "B", "C", "D", "E", "F", "G", "H", "I", "J", "K", "L", "M",
               "N", "O", "P", "Q", "R", "S", "T", "U", "V", "W", "X", "Y", "Z">>
LowerCase == <<"a", "b", "c", "d", "e", "f", "g", "h", "i", "j", "k", "l", "m",
               "n", "o", "p", "q", "r", "s", "t", "u", "v", "w", "x", "y", "z">>
WhiteSpace == {" ", "\t", "\n"}

ToLowerChar(c) ==
    IF \E i \in 1..Len(UpperCase) : UpperCase[i] = c
    THEN LowerCase[CHOOSE i \in 1..Len(UpperCase) : UpperCase[i] = c]
    ELSE c

\* String.prototype.toLowerCase
toLowerCase(s) == [i \in 1..Len(s) |-> ToLowerChar(s[i])]

\* String.prototype.includes
includes(s, sub) ==
    \E i \in 0..(Len(s) - Len(sub)) : \A j \in 1..Len(sub) : s[i + j] = sub[j]

\* String.prototype.trim
trim(s) ==
    LET keep == {i \in 1..Len(s) : s[i] \notin WhiteSpace}
    IN  IF keep = {} THEN <<>>
        ELSE SubSeq(s, CHOOSE i \in keep : \A j \in keep : i <= j,
                       CHOOSE i \in keep : \A j \in keep : i >= j)

Kw_restroom == <<"r", "e", "s", "t", "r", "o", "o", "m">>
Kw_bathroom == <<"b", "a", "t", "h", "r", "o", "o", "m">>
Kw_toilet == <<"t", "o", "i", "l", "e", "t">>
Kw_clean == <<"c", "l", "e", "a", "n">>
Kw_hygienic == <<"h", "y", "g", "i", "e", "n", "i", "c">>
Kw_accessible == <<"a", "c", "c", "e", "s", "s", "i", "b", "l", "e">>
Kw_disability == <<"d", "i", "s", "a", "b", "i", "l", "i", "t", "y">>
Kw_baby == <<"b", "a", "b", "y">>
Kw_changing == <<"c", "h", "a", "n", "g", "i", "n", "g">>
Kw_gender == <<"g", "e", "n", "d", "e", "r">>
Kw_neutral == <<"n", "e", "u", "t", "r", "a", "l">>
Kw_help == <<"h", "e", "l", "p">>
Kw_location == <<"l", "o", "c", "a", "t", "i", "o", "n">>
Kw_where_am_i == <<"w", "h", "e", "r", "e", " ", "a", "m", " ", "i">>

\* the literal arguments of onFindNearbyRestrooms
Label_clean_restrooms == <<"c", "l", "e", "a", "n", " ", "r", "e", "s", "t", "r", "o", "o", "m", "s">>
Label_accessible == <<"a", "c", "c", "e", "s", "s", "i", "b", "l", "e">>
Label_baby_changing == <<"b", "a", "b", "y", " ", "c", "h", "a", "n", "g", "i", "n", "g">>
Label_gender_neutral == <<"g", "e", "n", "d", "e", "r", " ", "n", "e", "u", "t", "r", "a", "l">>

-----------------------------------------------------------------------------
(* Queries the model submits *)

Q_Toilet == <<"T", "o", "i", "l", "e", "t">>
Q_CleanRestroom == <<"W", "h", "e", "r", "e", " ", "c", "a", "n", " ", "I", " ", "f", "i", "n", "d", " ", "a", " ", "c", "l", "e", "a", "n", " ", "r", "e", "s", "t", "r", "o", "o", "m", "?">>
Q_CleanAccessibleRestroom == <<"f", "i", "n", "d", " ", "a", " ", "c", "l", "e", "a", "n", " ", "a", "c", "c", "e", "s", "s", "i", "b", "l", "e", " ", "r", "e", "s", "t", "r", "o", "o", "m">>
Q_AccessibleBathroom == <<"a", "c", "c", "e", "s", "s", "i", "b", "l", "e", " ", "b", "a", "t", "h", "r", "o", "o", "m">>
Q_Clean == <<"C", "l", "e", "a", "n">>
Q_Hygienic == <<"H", "Y", "G", "I", "E", "N", "I", "C">>
Q_CleanAccessible == <<"c", "l", "e", "a", "n", " ", "a", "c", "c", "e", "s", "s", "i", "b", "l", "e">>
Q_Accessible == <<"a", "c", "c", "e", "s", "s", "i", "b", "l", "e">>
Q_Disability == <<"d", "i", "s", "a", "b", "i", "l", "i", "t", "y">>
Q_Baby == <<"b", "a", "b", "y">>
Q_Changing == <<"c", "h", "a", "n", "g", "i", "n", "g">>
Q_Gender == <<"g", "e", "n", "d", "e", "r">>
Q_Neutral == <<"N", "e", "u", "t", "r", "a", "l">>
Q_Help == <<"h", "e", "l", "p">>
Q_Location == <<"l", "o", "c", "a", "t", "i", "o", "n">>
Q_WhereAmI == <<"W", "h", "e", "r", "e", " ", "a", "m", " ", "I">>
Q_Hello == <<"h", "e", "l", "l", "o">>
Q_Blank == <<" ", " ">>
Q_Empty == <<>>

AllQueries ==
    {Q_Toilet, Q_CleanRestroom, Q_CleanAccessibleRestroom, Q_AccessibleBathroom,
     Q_Clean, Q_Hygienic, Q_CleanAccessible, Q_Accessible, Q_Disability, Q_Baby,
     Q_Changing, Q_Gender, Q_Neutral, Q_Help, Q_Location, Q_WhereAmI, Q_Hello,
     Q_Blank, Q_Empty}

\* what the conversation specification types and hears
TypedQueries == {Q_Toilet, Q_Hello, Q_Blank}
Transcripts == {Q_Toilet}

-----------------------------------------------------------------------------
(* Restroom records and locations *)

\* r.location of a record that carries none
Undefined == [undefined |-> TRUE]

Restroom(n, loc, score, acc, baby, gn) ==
    [name |-> n, location |-> loc, cleanliness |-> [score |-> score],
     accessibility |-> acc, babyChanging |-> baby, genderNeutral |-> gn]

At(x, y) == [lat |-> x, lng |-> y]

\* defaultLocation of @/data/restrooms, taken as the origin of the grid
defaultLocation == At(0, 0)

\* positions navigator.geolocation may report
GeoLocations == {At(0, 0), At(2, 0)}

\* The records the catalogs are drawn from.  Kilometres from At(0,0) and
\* from At(2,0):  A 1 / 0,  B 1 / 1.41,  C 2.5 / 1.5,  D 3 / 2,
\* E 3.2 / 2.69,  F has no location.
RestroomPool ==
    {Restroom("A", At(2, 0), 90, TRUE,  FALSE, FALSE),
     Restroom("B", At(0, 2), 70, FALSE, TRUE,  TRUE),
     Restroom("C", At(5, 0), 85, TRUE,  TRUE,  FALSE),
     Restroom("D", At(6, 0), 84, FALSE, FALSE, TRUE),
     Restroom("E", At(4, 5), 95, TRUE,  TRUE,  TRUE),
     Restroom("F", Undefined, 90, TRUE,  TRUE,  TRUE)}

RECURSIVE SeqsOver(_, _)
\* the sequences of length n of distinct elements of S
SeqsOver(S, n) ==
    IF n = 0 THEN {<<>>}
    ELSE UNION {{Append(t, x) : x \in S \ {t[i] : i \in 1..Len(t)}} :
                t \in SeqsOver(S, n - 1)}

\* the pairs <<static catalog, user list>> of at most MaxCandidates records
Catalogs ==
    UNION {{<<SubSeq(t, 1, k), SubSeq(t, k + 1, n)>> : k \in 0..n, t \in SeqsOver(RestroomPool, n)} :
           n \in 0..MaxCandidates}

\* the catalog of the conversation specification: A in the static catalog,
\* C contributed by a user
ConversationCatalogs ==
    {<<SubSeq(t, 1, 1), SubSeq(t, 2, 2)>> :
        t \in {s \in SeqsOver(RestroomPool, 2) : s[1].name = "A" /\ s[2].name = "C"}}

\* the position navigator.geolocation reports in the conversation
\* specification, which is not defaultLocation
ConversationGeoLocations == {At(2, 0)}

-----------------------------------------------------------------------------
(* Distance *)

Square(x) == x * x

\* Math.sqrt(Math.pow(dlat, 2) + Math.pow(dlng, 2)) * 111 <= radiusKm,
\* with dlat and dlng in grid steps; both sides squared
withinRadius(location, origin, radiusKm) ==
    (Square(location.lat - origin.lat) + Square(location.lng - origin.lng))
        * Square(KmPerDegree)
    <= Square(radiusKm) * Square(UnitsPerDegree)

\* the same comparison with the boundary left out
withinRadiusStrict(location, origin, radiusKm) ==
    (Square(location.lat - origin.lat) + Square(location.lng - origin.lng))
        * Square(KmPerDegree)
    < Square(radiusKm) * Square(UnitsPerDegree)

\* the inline filter callback of the attribute branches: distance <= 3
nearbyFilterStrict(r, origin) == withinRadiusStrict(r.location, origin, AttributeRadiusKm)
nearbyFilter(r, origin) == withinRadius(r.location, origin, AttributeRadiusKm)

\* the callback reads r.location.lat: a TypeError when r.location is undefined
filterThrows(list) == \E i \in 1..Len(list) : list[i].location = Undefined

nearbyOf(list, origin) ==
    LET Near(r) == nearbyFilter(r, origin) IN SelectSeq(list, Near)

\* the data-source helpers: the records within radius km, in catalog order;
\* a record without a location is left out
helperFilter(list, origin, radius) ==
    LET Near(r) == r.location # Undefined /\ withinRadius(r.location, origin, radius)
    IN  SelectSeq(list, Near)

getRestroomsByLocation(lat, lng, radius) == helperFilter(staticRestrooms, At(lat, lng), radius)
getNearbyRestrooms(lat, lng, radius) == helperFilter(userRestrooms, At(lat, lng), radius)

\* Number.prototype.toFixed(4) of a coordinate: ten-thousandths of a degree,
\* rounded half up (coordinates of the grid are not negative)
toFixed4(units) == (2 * 10000 * units + UnitsPerDegree) \div (2 * UnitsPerDegree)

-----------------------------------------------------------------------------
(* processUserQuery: the response text and the calls of onFindNearbyRestrooms *)

\* A response text, by the template it is built from and the values the
\* template interpolates; a field the template does not have is "" or 0.
\*   kind: "found" | "needLocation" | "expand" | "help" | "locationEcho"
\*         | "noLocation" | "fallback"
\*   score: the score printed as score/100 (clean), or the score whose
\*          cleanliness tier is printed (nearby)
Response(kind, intent, count, name, score, lat, lng) ==
    [kind |-> kind, intent |-> intent, count |-> count, name |-> name,
     score |-> score, lat |-> lat, lng |-> lng]

Static(kind, intent) == Response(kind, intent, 0, "", 0, 0, 0)

NoResponse == Static("none", "")

\* what one run of processUserQuery did: threw before the reply was
\* scheduled, or scheduled botResponse after making the calls
Replied(botResponse, calls) == [threw |-> FALSE, botResponse |-> botResponse, calls |-> calls]
Threw == [threw |-> TRUE, botResponse |-> NoResponse, calls |-> <<>>]

\* a chain in which accessible is tested before clean
intentOfAccessibleFirst(normalizedQuery) ==
    IF includes(normalizedQuery, Kw_restroom) \/ includes(normalizedQuery, Kw_bathroom)
       \/ includes(normalizedQuery, Kw_toilet)
    THEN "nearby"
    ELSE IF includes(normalizedQuery, Kw_accessible) \/ includes(normalizedQuery, Kw_disability)
    THEN "accessible"
    ELSE IF includes(normalizedQuery, Kw_clean) \/ includes(normalizedQuery, Kw_hygienic)
    THEN "clean"
    ELSE IF includes(normalizedQuery, Kw_baby) \/ includes(normalizedQuery, Kw_changing)
    THEN "baby changing"
    ELSE IF includes(normalizedQuery, Kw_gender) \/ includes(normalizedQuery, Kw_neutral)
    THEN "gender neutral"
    ELSE IF includes(normalizedQuery, Kw_help)
    THEN "help"
    ELSE IF includes(normalizedQuery, Kw_location) \/ includes(normalizedQuery, Kw_where_am_i)
    THEN "location"
    ELSE "fallback"

\* the if / else-if chain: the branch a normalized query is answered by
intentOf(normalizedQuery) ==
    IF includes(normalizedQuery, Kw_restroom) \/ includes(normalizedQuery, Kw_bathroom)
       \/ includes(normalizedQuery, Kw_toilet)
    THEN "nearby"
    ELSE IF includes(normalizedQuery, Kw_clean) \/ includes(normalizedQuery, Kw_hygienic)
    THEN "clean"
    ELSE IF includes(normalizedQuery, Kw_accessible) \/ includes(normalizedQuery, Kw_disability)
    THEN "accessible"
    ELSE IF includes(normalizedQuery, Kw_baby) \/ includes(normalizedQuery, Kw_changing)
    THEN "baby changing"
    ELSE IF includes(normalizedQuery, Kw_gender) \/ includes(normalizedQuery, Kw_neutral)
    THEN "gender neutral"
    ELSE IF includes(normalizedQuery, Kw_help)
    THEN "help"
    ELSE IF includes(normalizedQuery, Kw_location) \/ includes(normalizedQuery, Kw_where_am_i)
    THEN "location"
    ELSE "fallback"

\* nearbyRestrooms: empty unless hasLocationPermission
nearbyRestroomsOf(hasLoc, loc) ==
    IF hasLoc
    THEN getRestroomsByLocation(loc.lat, loc.lng, NearbyRadiusKm)
            \o getNearbyRestrooms(loc.lat, loc.lng, NearbyRadiusKm)
    ELSE <<>>

\* the branch passing the normalized query to the callback
nearbyBranchLowered(query, hasLoc, nearbyRestrooms) ==
    IF Len(nearbyRestrooms) > 0
    THEN Replied(Response("found", "nearby", Len(nearbyRestrooms), nearbyRestrooms[1].name,
                          nearbyRestrooms[1].cleanliness.score, 0, 0),
                 <<toLowerCase(query)>>)
    ELSE IF ~hasLoc
    THEN Replied(Static("needLocation", "nearby"), <<>>)
    ELSE Replied(Static("expand", "nearby"), <<>>)

\* the branch calling back also when the location is missing
nearbyBranchAlwaysCalls(query, hasLoc, nearbyRestrooms) ==
    IF Len(nearbyRestrooms) > 0
    THEN Replied(Response("found", "nearby", Len(nearbyRestrooms), nearbyRestrooms[1].name,
                          nearbyRestrooms[1].cleanliness.score, 0, 0),
                 <<query>>)
    ELSE IF ~hasLoc
    THEN Replied(Static("needLocation", "nearby"), <<query>>)
    ELSE Replied(Static("expand", "nearby"), <<>>)

\* restroom / bathroom / toilet
nearbyBranch(query, hasLoc, nearbyRestrooms) ==
    IF Len(nearbyRestrooms) > 0
    THEN Replied(Response("found", "nearby", Len(nearbyRestrooms), nearbyRestrooms[1].name,
                          nearbyRestrooms[1].cleanliness.score, 0, 0),
                 <<query>>)
    ELSE IF ~hasLoc
    THEN Replied(Static("needLocation", "nearby"), <<>>)
    ELSE Replied(Static("expand", "nearby"), <<>>)

\* the score test with the threshold itself left out
isCleanStrict(r) == r.cleanliness.score > CleanScoreThreshold
isClean(r) == r.cleanliness.score >= CleanScoreThreshold

\* the branch naming the last match instead of the first
cleanBranchNamesLast(hasLoc, loc, allRestrooms) ==
    LET cleanRestrooms == SelectSeq(allRestrooms, isClean)
    IN  IF hasLoc /\ Len(cleanRestrooms) > 0
        THEN IF filterThrows(cleanRestrooms) THEN Threw
             ELSE LET nearbyCleanRestrooms == nearbyOf(cleanRestrooms, loc)
                      n == Len(nearbyCleanRestrooms)
                  IN  IF n > 0
                      THEN Replied(Response("found", "clean", n, nearbyCleanRestrooms[n].name,
                                            nearbyCleanRestrooms[n].cleanliness.score, 0, 0),
                                   <<Label_clean_restrooms>>)
                      ELSE Replied(Static("expand", "clean"), <<>>)
        ELSE Replied(Static("needLocation", "clean"), <<>>)

\* clean / hygienic
cleanBranch(hasLoc, loc, allRestrooms) ==
    LET cleanRestrooms == SelectSeq(allRestrooms, isClean)
    IN  IF hasLoc /\ Len(cleanRestrooms) > 0
        THEN IF filterThrows(cleanRestrooms) THEN Threw
             ELSE LET nearbyCleanRestrooms == nearbyOf(cleanRestrooms, loc)
                  IN  IF Len(nearbyCleanRestrooms) > 0
                      THEN Replied(Response("found", "clean", Len(nearbyCleanRestrooms),
                                            nearbyCleanRestrooms[1].name,
                                            nearbyCleanRestrooms[1].cleanliness.score, 0, 0),
                                   <<Label_clean_restrooms>>)
                      ELSE Replied(Static("expand", "clean"), <<>>)
        ELSE Replied(Static("needLocation", "clean"), <<>>)

\* the three branches that filter on a flag and name no restroom
flagBranch(intent, label, flagged, hasLoc, loc) ==
    IF hasLoc /\ Len(flagged) > 0
    THEN IF filterThrows(flagged) THEN Threw
         ELSE LET nearbyFlagged == nearbyOf(flagged, loc)
              IN  IF Len(nearbyFlagged) > 0
                  THEN Replied(Response("found", intent, Len(nearbyFlagged), "", 0, 0, 0),
                               <<label>>)
                  ELSE Replied(Static("expand", intent), <<>>)
    ELSE Replied(Static("needLocation", intent), <<>>)

isAccessible(r) == r.accessibility
hasBabyChanging(r) == r.babyChanging
isGenderNeutral(r) == r.genderNeutral

\* accessible / disability
accessibleBranch(hasLoc, loc, allRestrooms) ==
    flagBranch("accessible", Label_accessible, SelectSeq(allRestrooms, isAccessible), hasLoc, loc)

\* baby / changing
babyChangingBranch(hasLoc, loc, allRestrooms) ==
    flagBranch("baby changing", Label_baby_changing, SelectSeq(allRestrooms, hasBabyChanging), hasLoc, loc)

\* gender / neutral
genderNeutralBranch(hasLoc, loc, allRestrooms) ==
    flagBranch("gender neutral", Label_gender_neutral, SelectSeq(allRestrooms, isGenderNeutral), hasLoc, loc)

\* the branch offering its location to the map as well
locationBranchTriggers(hasLoc, loc) ==
    IF hasLoc
    THEN Replied(Response("locationEcho", "location", 0, "", 0,
                          toFixed4(loc.lat), toFixed4(loc.lng)), <<Kw_location>>)
    ELSE Replied(Static("noLocation", "location"), <<>>)

\* location / where am i
locationBranch(hasLoc, loc) ==
    IF hasLoc
    THEN Replied(Response("locationEcho", "location", 0, "", 0,
                          toFixed4(loc.lat), toFixed4(loc.lng)), <<>>)
    ELSE Replied(Static("noLocation", "location"), <<>>)

\* processUserQuery up to its setTimeout, run with the hasLocationPermission
\* and currentLocation of the render whose closure is called
processUserQuery(query, hasLoc, loc) ==
    LET normalizedQuery == toLowerCase(query)
        allRestrooms == staticRestrooms \o userRestrooms
        nearbyRestrooms == nearbyRestroomsOf(hasLoc, loc)
        intent == intentOf(normalizedQuery)
    IN  CASE intent = "nearby" -> nearbyBranch(query, hasLoc, nearbyRestrooms)
          [] intent = "clean" -> cleanBranch(hasLoc, loc, allRestrooms)
          [] intent = "accessible" -> accessibleBranch(hasLoc, loc, allRestrooms)
          [] intent = "baby changing" -> babyChangingBranch(hasLoc, loc, allRestrooms)
          [] intent = "gender neutral" -> genderNeutralBranch(hasLoc, loc, allRestrooms)
          [] intent = "help" -> Replied(Static("help", "help"), <<>>)
          [] intent = "location" -> locationBranch(hasLoc, loc)
          [] OTHER -> Replied(Static("fallback", "fallback"), <<>>)

-----------------------------------------------------------------------------
(* The component *)

UserMessage(text) == [sender |-> "user", content |-> text]
BotMessage(response) == [sender |-> "bot", content |-> response]

\* the initial value of messages
WelcomeMessage == BotMessage(Static("welcome", ""))

\* the user messages of a transcript
UserCount(transcript) ==
    Cardinality({i \in 1..Len(transcript) : transcript[i].sender = "user"})

\* the record of one call of handleSendMessage
\*   outcome: "ignored" (the early return), "replied" (a reply was
\*   scheduled), "threw" (processUserQuery rejected before scheduling)
Call(via, query, hasLoc, loc, outcome, botResponse, calls) ==
    [via |-> via, query |-> query, hasLoc |-> hasLoc, loc |-> loc, outcome |-> outcome,
     botResponse |-> botResponse, calls |-> calls]

NoCall == Call("none", <<>>, FALSE, defaultLocation, "none", NoResponse, <<>>)

\* the guard rejecting the empty text only
isBlankUntrimmed(inputMessage) == inputMessage = <<>>
\* !inputMessage.trim()
isBlank(inputMessage) == trim(inputMessage) = <<>>

\* handleSendMessage(inputMessage), called through a closure whose render
\* saw hasLoc and loc.  State setters of an unmounted component do nothing.
handleSendMessage(via, inputMessage, hasLoc, loc) ==
    IF isBlank(inputMessage)
    THEN /\ last' = Call(via, inputMessage, hasLoc, loc, "ignored", NoResponse, <<>>)
         /\ UNCHANGED <<messages, message, replyTimers, triggers>>
    ELSE LET result == processUserQuery(inputMessage, hasLoc, loc)
         IN  /\ mounted => UserCount(messages) < MaxSends
             /\ messages' = IF mounted THEN Append(messages, UserMessage(inputMessage))
                            ELSE messages
             /\ message' = IF mounted THEN <<>> ELSE message
             /\ triggers' = triggers \o result.calls
             /\ replyTimers' = IF result.threw THEN replyTimers
                               ELSE Append(replyTimers, result.botResponse)
             /\ last' = Call(via, inputMessage, hasLoc, loc,
                             IF result.threw THEN "threw" ELSE "replied",
                             result.botResponse, result.calls)

\* the open button
Open ==
    /\ mounted /\ ~isOpen
    /\ isOpen' = TRUE
    /\ UNCHANGED <<mapVars, staticRestrooms, userRestrooms, mounted, message, messages, isListening,
                   currentLocation, hasLocationPermission, geolocation, recognition,
                   voiceTimers, replyTimers, triggers, spoken, last>>

\* the X button of the card
Close ==
    /\ mounted /\ isOpen
    /\ isOpen' = FALSE
    /\ UNCHANGED <<mapVars, staticRestrooms, userRestrooms, mounted, message, messages, isListening,
                   currentLocation, hasLocationPermission, geolocation, recognition,
                   voiceTimers, replyTimers, triggers, spoken, last>>

\* onChange of the input, which is disabled while listening
SetMessage(text) ==
    /\ mounted /\ isOpen /\ ~isListening
    /\ message' = text
    /\ UNCHANGED <<mapVars, staticRestrooms, userRestrooms, mounted, isOpen, messages, isListening,
                   currentLocation, hasLocationPermission, geolocation, recognition,
                   voiceTimers, replyTimers, triggers, spoken, last>>

\* onSubmit of the form: handleSendMessage() of the current render
Submit ==
    /\ mounted /\ isOpen /\ ~isListening
    /\ handleSendMessage("typed", message, hasLocationPermission, currentLocation)
    /\ UNCHANGED <<mapVars, staticRestrooms, userRestrooms, mounted, isOpen, isListening,
                   currentLocation, hasLocationPermission, geolocation, recognition,
                   voiceTimers, spoken>>

\* the success callback of getCurrentPosition
GeolocationSuccess(position) ==
    /\ geolocation = "pending"
    /\ geolocation' = "done"
    /\ currentLocation' = IF mounted THEN position ELSE currentLocation
    /\ hasLocationPermission' = IF mounted THEN TRUE ELSE hasLocationPermission
    /\ UNCHANGED <<mapVars, staticRestrooms, userRestrooms, mounted, isOpen, message, messages,
                   isListening, recognition, voiceTimers, replyTimers, triggers, spoken, last>>

\* the error callback of getCurrentPosition
GeolocationError ==
    /\ geolocation = "pending"
    /\ geolocation' = "done"
    /\ UNCHANGED <<mapVars, staticRestrooms, userRestrooms, mounted, isOpen, message, messages,
                   isListening, currentLocation, hasLocationPermission, recognition,
                   voiceTimers, replyTimers, triggers, spoken, last>>

\* the microphone button
toggleListening ==
    /\ mounted /\ isOpen
    /\ IF isListening
       THEN /\ recognition' = IF recognition = "started" THEN "ending" ELSE recognition
            /\ isListening' = FALSE
       ELSE IF recognition = "idle"
       THEN /\ recognition' = "started"
            /\ isListening' = TRUE
       ELSE \* start() throws on a recognition still ending, and the catch resets
            /\ recognition' = recognition
            /\ isListening' = FALSE
    /\ UNCHANGED <<mapVars, staticRestrooms, userRestrooms, mounted, isOpen, message, messages,
                   currentLocation, hasLocationPermission, geolocation,
                   voiceTimers, replyTimers, triggers, spoken, last>>

\* recognition.onresult: one result ends a non-continuous recognition
onresult(transcript) ==
    /\ recognition = "started"
    /\ Len(voiceTimers) < MaxVoiceTimers
    /\ recognition' = "ending"
    /\ message' = IF mounted THEN transcript ELSE message
    /\ voiceTimers' = Append(voiceTimers, transcript)
    /\ UNCHANGED <<mapVars, staticRestrooms, userRestrooms, mounted, isOpen, messages, isListening,
                   currentLocation, hasLocationPermission, geolocation,
                   replyTimers, triggers, spoken, last>>

\* recognition.onerror
onerror ==
    /\ recognition = "started"
    /\ recognition' = "ending"
    /\ isListening' = IF mounted THEN FALSE ELSE isListening
    /\ UNCHANGED <<mapVars, staticRestrooms, userRestrooms, mounted, isOpen, message, messages,
                   currentLocation, hasLocationPermission, geolocation,
                   voiceTimers, replyTimers, triggers, spoken, last>>

\* recognition.onend
onend ==
    /\ recognition \in {"started", "ending"}
    /\ recognition' = "idle"
    /\ isListening' = IF mounted THEN FALSE ELSE isListening
    /\ UNCHANGED <<mapVars, staticRestrooms, userRestrooms, mounted, isOpen, message, messages,
                   currentLocation, hasLocationPermission, geolocation,
                   voiceTimers, replyTimers, triggers, spoken, last>>

\* the 500 ms timer calling the handler of the latest render
VoiceTimerLatestRender ==
    /\ voiceTimers # <<>>
    /\ handleSendMessage("voice", Head(voiceTimers), hasLocationPermission, currentLocation)
    /\ voiceTimers' = Tail(voiceTimers)
    /\ isListening' = IF mounted THEN FALSE ELSE isListening
    /\ UNCHANGED <<mapVars, staticRestrooms, userRestrooms, mounted, isOpen,
                   currentLocation, hasLocationPermission, geolocation, recognition, spoken>>

\* the 500 ms timer of onresult: handleSendMessage of the first render,
\* whose closure holds hasLocationPermission = false and defaultLocation
VoiceTimer ==
    /\ voiceTimers # <<>>
    /\ handleSendMessage("voice", Head(voiceTimers), FALSE, defaultLocation)
    /\ voiceTimers' = Tail(voiceTimers)
    /\ isListening' = IF mounted THEN FALSE ELSE isListening
    /\ UNCHANGED <<mapVars, staticRestrooms, userRestrooms, mounted, isOpen,
                   currentLocation, hasLocationPermission, geolocation, recognition, spoken>>

\* the timers firing the latest first
ReplyTimerLatestFirst ==
    /\ replyTimers # <<>>
    /\ replyTimers' = SubSeq(replyTimers, 1, Len(replyTimers) - 1)
    /\ messages' = IF mounted
                   THEN Append(messages, BotMessage(replyTimers[Len(replyTimers)]))
                   ELSE messages
    /\ spoken' = Append(spoken, replyTimers[Len(replyTimers)])
    /\ UNCHANGED <<mapVars, staticRestrooms, userRestrooms, mounted, isOpen, message, isListening,
                   currentLocation, hasLocationPermission, geolocation, recognition,
                   voiceTimers, triggers, last>>

\* the 1000 ms timer of processUserQuery: nothing holds its handle, so it
\* fires whatever became of the card and of the component
ReplyTimer ==
    /\ replyTimers # <<>>
    /\ replyTimers' = Tail(replyTimers)
    /\ messages' = IF mounted THEN Append(messages, BotMessage(Head(replyTimers)))
                   ELSE messages
    /\ spoken' = Append(spoken, Head(replyTimers))
    /\ UNCHANGED <<mapVars, staticRestrooms, userRestrooms, mounted, isOpen, message, isListening,
                   currentLocation, hasLocationPermission, geolocation, recognition,
                   voiceTimers, triggers, last>>

\* the component is unmounted: the effect's cleanup aborts the recognition
Unmount ==
    /\ mounted
    /\ mounted' = FALSE
    /\ recognition' = IF recognition = "started" THEN "ending" ELSE recognition
    /\ UNCHANGED <<mapVars, staticRestrooms, userRestrooms, isOpen, message, messages, isListening,
                   currentLocation, hasLocationPermission, geolocation,
                   voiceTimers, replyTimers, triggers, spoken, last>>

-----------------------------------------------------------------------------
(* The map: the selection, the user's position and the route to the       *)
(* selected restroom.  A route is known by the request it answers: the    *)
(* steps and the distance and duration texts of a directions response are *)
(* determined by the origin and the destination of the request.           *)

\* the ids of the records of the restrooms prop
MapRestroomIds == {"r1", "r2"}

\* no selection: selectedId is undefined
NoId == ""

\* the values the parent gives to selectedId: none, a restroom shown, or an
\* id that no record of the restrooms prop has
SelectedIds == MapRestroomIds \cup {NoId, "r9"}

\* the positions that getCurrentPosition delivers
GeolocationPositions == {[coords |-> At(0, 0)], [coords |-> At(2, 0)]}

\* routeDetails before the first route
null == [null |-> TRUE]

\* restrooms.find(r => r.id === selectedId), a restroom standing for its id
find(id) == IF id \in MapRestroomIds THEN id ELSE NoId

selectedRestroom == find(selectedId)

\* the effect of MapUpdater, run for a changed selectedRestroom or
\* userLocation: getRoute() fetches the directions when both are there
getRoute(restroom, location) ==
    IF restroom # NoId /\ location # Undefined
    THEN /\ Len(directionsRequests) < MaxDirectionsRequests
         /\ directionsRequests' = Append(directionsRequests,
                                         [origin |-> location.coords, destination |-> restroom])
    ELSE UNCHANGED directionsRequests

\* the effect of Map for a changed selectedId
requestPosition(id) ==
    IF id # NoId /\ userLocation = Undefined
    THEN /\ positionRequests < MaxPositionRequests
         /\ positionRequests' = positionRequests + 1
    ELSE UNCHANGED positionRequests

\* a render of Map with another selectedId, and the effects this render runs
selectedIdChanges(id) ==
    /\ selectedId' = id
    /\ activeId' = id
    /\ requestPosition(id)
    /\ IF find(id) # selectedRestroom
       THEN getRoute(find(id), userLocation)
       ELSE UNCHANGED directionsRequests

\* the parent changes the selection: after onSelectRestroom of the View
\* Details button, or on its own (another view selects, the detail closes)
setSelectedId(id) ==
    /\ id # selectedId
    /\ selectedIdChanges(id)
    /\ UNCHANGED <<chatVars, userLocation, routePath, routeDetails, toast>>

\* click on a marker: setActiveId, then onSelectRestroom, which the parent
\* either answers with the id as the new selectedId or leaves unanswered
markerClick(id, adopted) ==
    /\ IF adopted /\ id # selectedId
       THEN selectedIdChanges(id)
       ELSE /\ activeId' = id
            /\ UNCHANGED <<selectedId, positionRequests, directionsRequests>>
    /\ UNCHANGED <<chatVars, userLocation, routePath, routeDetails, toast>>

\* the success callback of getCurrentPosition: every position is a new
\* object, so the effect of MapUpdater runs again
positionSuccess(position) ==
    /\ positionRequests > 0
    /\ positionRequests' = positionRequests - 1
    /\ userLocation' = position
    /\ getRoute(selectedRestroom, position)
    /\ UNCHANGED <<chatVars, selectedId, activeId, routePath, routeDetails, toast>>

\* the error callback of getCurrentPosition
positionError ==
    /\ positionRequests > 0
    /\ positionRequests' = positionRequests - 1
    /\ toast' = "Location Access Required"
    /\ UNCHANGED <<chatVars, selectedId, activeId, userLocation, directionsRequests,
                   routePath, routeDetails>>

\* the continuation of getRoute after its awaits: the fetches are answered
\* in any order; the answer has a route, or has none, or the fetch failed
directionsResponse(i, outcome) ==
    LET request == directionsRequests[i]
    IN  /\ directionsRequests' = SubSeq(directionsRequests, 1, i - 1)
                                   \o SubSeq(directionsRequests, i + 1, Len(directionsRequests))
        /\ routePath' = IF outcome = "route" THEN <<request>> ELSE routePath
        /\ routeDetails' = IF outcome = "route"
                           THEN [distance |-> request, duration |-> request]
                           ELSE routeDetails
        /\ toast' = IF outcome = "failed" THEN "Error" ELSE toast
        /\ UNCHANGED <<chatVars, selectedId, activeId, userLocation, positionRequests>>

\* the map as constructed: nothing selected, no position, no route
MapInit ==
    /\ selectedId = NoId
    /\ activeId = NoId
    /\ userLocation = Undefined
    /\ positionRequests = 0
    /\ directionsRequests = <<>>
    /\ routePath = <<>>
    /\ routeDetails = null
    /\ toast = ""

-----------------------------------------------------------------------------
(* The conversation: the component from its construction on *)

Init ==
    /\ \E catalog \in ConversationCatalogs :
            staticRestrooms = catalog[1] /\ userRestrooms = catalog[2]
    /\ mounted = TRUE
    /\ isOpen = FALSE
    /\ message = <<>>
    /\ messages = <<WelcomeMessage>>
    /\ isListening = FALSE
    /\ currentLocation = defaultLocation
    /\ hasLocationPermission = FALSE
    /\ geolocation = "pending"
    /\ recognition = "idle"
    /\ voiceTimers = <<>>
    /\ replyTimers = <<>>
    /\ triggers = <<>>
    /\ spoken = <<>>
    /\ last = NoCall
    /\ MapInit

Next ==
    \/ Open
    \/ Close
    \/ \E text \in TypedQueries : SetMessage(text)
    \/ Submit
    \/ \E position \in ConversationGeoLocations : GeolocationSuccess(position)
    \/ GeolocationError
    \/ toggleListening
    \/ \E transcript \in Transcripts : onresult(transcript)
    \/ onerror
    \/ onend
    \/ VoiceTimer
    \/ ReplyTimer
    \/ Unmount

Spec == Init /\ [][Next]_vars

-----------------------------------------------------------------------------
(* One query: the open card of a mounted component, in any state of the    *)
(* location and for any catalog, with a text typed and about to be sent    *)

QueryInit ==
    /\ \E catalog \in Catalogs :
            staticRestrooms = catalog[1] /\ userRestrooms = catalog[2]
    /\ mounted = TRUE
    /\ isOpen = TRUE
    /\ message \in AllQueries
    /\ messages = <<WelcomeMessage>>
    /\ isListening = FALSE
    /\ hasLocationPermission \in BOOLEAN
    /\ currentLocation \in (IF hasLocationPermission THEN GeoLocations ELSE {defaultLocation})
    /\ geolocation = "done"
    /\ recognition = "idle"
    /\ voiceTimers = <<>>
    /\ replyTimers = <<>>
    /\ triggers = <<>>
    /\ spoken = <<>>
    /\ last = NoCall
    /\ MapInit

QueryNext ==
    \/ Submit
    \/ ReplyTimer

QuerySpec == QueryInit /\ [][QueryNext]_vars

-----------------------------------------------------------------------------
(* The map next to a conversation that has not begun *)

MapNext ==
    \/ \E id \in SelectedIds : setSelectedId(id)
    \/ \E id \in MapRestroomIds, adopted \in BOOLEAN : markerClick(id, adopted)
    \/ \E position \in GeolocationPositions : positionSuccess(position)
    \/ positionError
    \/ \E i \in 1..Len(directionsRequests), outcome \in {"route", "noRoute", "failed"} :
          directionsResponse(i, outcome)

MapSpec == Init /\ [][MapNext]_vars

-----------------------------------------------------------------------------
(* Properties.  They read the record of the last call of handleSendMessage, *)
(* the catalogs, and what the component shows.                              *)

\* the last query, lower-cased, contains the keyword
Asked(keyword) == includes(toLowerCase(last.query), keyword)

AskedNearby == Asked(Kw_restroom) \/ Asked(Kw_bathroom) \/ Asked(Kw_toilet)
AskedClean == Asked(Kw_clean) \/ Asked(Kw_hygienic)
AskedAccessible == Asked(Kw_accessible) \/ Asked(Kw_disability)
AskedBabyChanging == Asked(Kw_baby) \/ Asked(Kw_changing)
AskedGenderNeutral == Asked(Kw_gender) \/ Asked(Kw_neutral)

\* the last query has one of the five intents that filter by location
AskedLocationDependent ==
    AskedNearby \/ AskedClean \/ AskedAccessible \/ AskedBabyChanging \/ AskedGenderNeutral

\* the last call got past the early return of handleSendMessage
Processed == last.outcome \in {"replied", "threw"}

AllRestrooms == staticRestrooms \o userRestrooms

\* r lies within km kilometres of loc; a grid step is half a kilometre
WithinKm(r, loc, km) ==
    /\ r.location # Undefined
    /\ Square(r.location.lat - loc.lat) + Square(r.location.lng - loc.lng) <= 4 * Square(km)

\* the candidates, in catalog order, that an intent is to count
FilteredFor(intent, loc) ==
    LET Counts(r) ==
            CASE intent = "nearby" -> WithinKm(r, loc, 2)
              [] intent = "clean" -> r.cleanliness.score >= 85 /\ WithinKm(r, loc, 3)
              [] intent = "accessible" -> r.accessibility /\ WithinKm(r, loc, 3)
              [] intent = "baby changing" -> r.babyChanging /\ WithinKm(r, loc, 3)
              [] intent = "gender neutral" -> r.genderNeutral /\ WithinKm(r, loc, 3)
              [] OTHER -> FALSE
    IN  SelectSeq(AllRestrooms, Counts)

FilteringIntents == {"nearby", "clean", "accessible", "baby changing", "gender neutral"}
AttributeIntents == FilteringIntents \ {"nearby"}

\* the intent of the last query under the documented priority order
LastIntent ==
    IF AskedNearby THEN "nearby"
    ELSE IF AskedClean THEN "clean"
    ELSE IF AskedAccessible THEN "accessible"
    ELSE IF AskedBabyChanging THEN "baby changing"
    ELSE IF AskedGenderNeutral THEN "gender neutral"
    ELSE IF Asked(Kw_help) THEN "help"
    ELSE IF Asked(Kw_location) \/ Asked(Kw_where_am_i) THEN "location"
    ELSE "fallback"

\* C1: a query with a location-dependent intent, processed while
\* hasLocationPermission is false, is answered by a "need location" message
\* and onFindNearbyRestrooms is not called, whatever the catalogs hold.
C1_NoLocationNoTrigger ==
    (Processed /\ AskedLocationDependent /\ ~last.hasLoc)
        => /\ last.outcome = "replied"
           /\ last.botResponse.kind = "needLocation"
           /\ last.calls = <<>>
           /\ triggers = <<>>

\* C1 witness: "Clean" was sent without location over a catalog that holds
\* a clean restroom, and the answer asks for the location.
C1_Witness ==
    /\ last.query = Q_Clean /\ ~last.hasLoc /\ last.outcome = "replied"
    /\ \E i \in 1..Len(AllRestrooms) : AllRestrooms[i].cleanliness.score >= 85
    /\ last.botResponse.kind = "needLocation"
    /\ triggers = <<>>

\* C2 as stated: every query containing both "clean" and "accessible" is
\* answered by the clean branch.
C2_Original ==
    (last.outcome = "replied" /\ Asked(Kw_clean) /\ Asked(Kw_accessible))
        => last.botResponse.intent = "clean"

\* C2 amended: a query containing both "clean" and "accessible" is answered
\* by the clean branch (clean text, no label but "clean restrooms") when it
\* contains none of "restroom", "bathroom", "toilet", and by the generic
\* nearby branch when it contains one of them.
C2_CleanBeforeAccessible ==
    (last.outcome = "replied" /\ Asked(Kw_clean) /\ Asked(Kw_accessible))
        => IF AskedNearby
           THEN /\ last.botResponse.intent = "nearby"
                /\ last.calls \in {<<>>, <<last.query>>}
           ELSE /\ last.botResponse.intent = "clean"
                /\ last.calls \in {<<>>, <<Label_clean_restrooms>>}

\* C2 witness: "clean accessible" found clean restrooms and passed the
\* label "clean restrooms".
C2_Witness ==
    /\ last.query = Q_CleanAccessible /\ last.outcome = "replied"
    /\ last.botResponse.kind = "found" /\ last.botResponse.intent = "clean"
    /\ triggers = <<Label_clean_restrooms>>

\* the response names a restroom of the catalogs whose score is at least 85
NamesCleanRestroom ==
    \E i \in 1..Len(AllRestrooms) :
        /\ AllRestrooms[i].name = last.botResponse.name
        /\ AllRestrooms[i].cleanliness.score >= 85

\* C3 as stated: for every query containing "clean" or "hygienic", with
\* location available, the count is that of the candidates with score >= 85
\* in range and the named restroom has score >= 85.
C3_Original ==
    (last.outcome = "replied" /\ AskedClean /\ last.hasLoc
        /\ last.botResponse.kind = "found")
        => /\ last.botResponse.count = Len(FilteredFor("clean", last.loc))
           /\ NamesCleanRestroom

\* C3 amended: the same for the queries that contain "clean" or "hygienic"
\* and none of "restroom", "bathroom", "toilet"; the score printed is the
\* named restroom's.
C3_OnlyCleanCounted ==
    (last.outcome = "replied" /\ AskedClean /\ ~AskedNearby /\ last.hasLoc
        /\ last.botResponse.kind = "found")
        => /\ last.botResponse.count = Len(FilteredFor("clean", last.loc))
           /\ NamesCleanRestroom
           /\ last.botResponse.score >= 85
           /\ \E i \in 1..Len(AllRestrooms) :
                /\ AllRestrooms[i].name = last.botResponse.name
                /\ AllRestrooms[i].cleanliness.score = last.botResponse.score

\* C3 witness: "HYGIENIC" over A (score 90) and B (score 70), both 1 km
\* away, reports one restroom, A, with 90/100.
C3_Witness ==
    /\ last.query = Q_Hygienic /\ last.hasLoc /\ last.loc = At(0, 0)
    /\ {AllRestrooms[i].name : i \in 1..Len(AllRestrooms)} = {"A", "B"}
    /\ last.botResponse.kind = "found"
    /\ last.botResponse.count = 1
    /\ last.botResponse.name = "A"
    /\ last.botResponse.score = 90

\* C4: for every location-filtering intent, with location available and an
\* empty filtered set, the answer is the "expand the search radius?" message
\* and onFindNearbyRestrooms is not called.
C4_EmptyFilteredAsksToExpand ==
    (last.outcome = "replied" /\ last.hasLoc /\ LastIntent \in FilteringIntents
        /\ FilteredFor(LastIntent, last.loc) = <<>>)
        => /\ last.botResponse.kind = "expand"
           /\ last.calls = <<>>

\* the label the intent of the last query fixes
LabelOfLastIntent ==
    LET intent == LastIntent
    IN  CASE intent = "nearby" -> last.query
          [] intent = "clean" -> Label_clean_restrooms
          [] intent = "accessible" -> Label_accessible
          [] intent = "baby changing" -> Label_baby_changing
          [] intent = "gender neutral" -> Label_gender_neutral
          [] OTHER -> <<>>

\* C5: onFindNearbyRestrooms is called at most once for a query, and only
\* with the label its intent fixes: "clean restrooms", "accessible",
\* "baby changing", "gender neutral", or the query as typed for the generic
\* nearby intent; the calls the component made are those of the last query.
C5_TriggerLabel ==
    Processed
        => /\ last.calls \in {<<>>, <<LabelOfLastIntent>>}
           /\ last.calls # <<>> => LastIntent \in FilteringIntents
           /\ triggers = last.calls

\* C5 witness: "Toilet" passed the query as typed, capital included.
C5_Witness ==
    /\ last.query = Q_Toilet /\ last.outcome = "replied"
    /\ triggers = <<Q_Toilet>>
    /\ triggers # <<toLowerCase(Q_Toilet)>>

\* the filtered set of the last query's intent, at the location it was
\* processed with
LastFiltered == FilteredFor(LastIntent, last.loc)

BlankText(text) == \A i \in 1..Len(text) : text[i] \in WhiteSpace

\* C7 as stated: an empty or whitespace-only query submitted through
\* handleSendMessage gets a bot reply with the fallback text.
C7_Original ==
    (last.outcome # "none" /\ BlankText(last.query))
        => /\ last.outcome = "replied"
           /\ last.botResponse.kind = "fallback"

\* C7 amended: an empty or whitespace-only query submitted through
\* handleSendMessage is ignored without an error: no user message is added,
\* no reply is scheduled or spoken, and onFindNearbyRestrooms is not called.
C7_BlankIsIgnored ==
    [][(Submit /\ BlankText(message))
          => /\ last'.outcome = "ignored"
             /\ UNCHANGED <<messages, replyTimers, triggers, spoken>>]_vars

\* C7 witness: the whitespace-only text was submitted and ignored; the
\* transcript holds the welcome message alone and no reply is pending.
C7_Witness ==
    /\ last.query = Q_Blank /\ last.outcome = "ignored"
    /\ messages = <<WelcomeMessage>>
    /\ replyTimers = <<>>

\* C8: with location available, a query with an attribute intent over
\* catalogs holding a record without a location is answered, and the record
\* is not counted.
C8_MissingLocationExcluded ==
    (Processed /\ last.hasLoc /\ LastIntent \in AttributeIntents
        /\ \E i \in 1..Len(AllRestrooms) : AllRestrooms[i].location = Undefined)
        => /\ last.outcome = "replied"
           /\ last.botResponse.kind = "found" => last.botResponse.count = Len(LastFiltered)

\* the bot messages of a transcript
BotCount(transcript) ==
    Cardinality({i \in 1..Len(transcript) : transcript[i].sender = "bot"})

\* C9: once the card is closed or the component unmounted, no reply that
\* was pending is displayed or spoken.  (The last call being a typed one,
\* every pending reply was scheduled while the card was open.)
C9_TeardownCancelsReply ==
    [][((~isOpen \/ ~mounted) /\ last.via = "typed")
          => /\ BotCount(messages') = BotCount(messages)
             /\ spoken' = spoken]_vars

\* C10: with location available, the generic nearby intent counts the
\* candidates within 2 km, and an attribute intent counts exactly the
\* candidates having the attribute within 3 km, the boundary included.
C10_RadiusAsymmetry ==
    LET intent == LastIntent
        filtered == FilteredFor(intent, last.loc)
    IN  (last.outcome = "replied" /\ last.hasLoc /\ intent \in FilteringIntents)
            => /\ last.botResponse.kind = "found"
                    => last.botResponse.count = Len(filtered)
               /\ last.botResponse.kind \in {"expand", "needLocation"}
                    => filtered = <<>>

\* C10 witness: D, exactly 3 km away, is counted by "gender" while the
\* generic intent, at the same place, has no candidate within its 2 km.
C10_Witness ==
    /\ last.query = Q_Gender /\ last.hasLoc /\ last.loc = At(0, 0)
    /\ Len(AllRestrooms) = 1 /\ AllRestrooms[1].name = "D"
    /\ last.botResponse.kind = "found" /\ last.botResponse.count = 1
    /\ nearbyRestroomsOf(last.hasLoc, last.loc) = <<>>
    /\ FilteredFor("nearby", last.loc) = <<>>


\* n is the coordinate units (grid steps) printed with four decimals:
\* ten-thousandths of a degree, at most half a ten-thousandth off
PrintsFourDecimals(n, units) ==
    LET exact == 10000 * units
        shown == n * UnitsPerDegree
    IN  2 * (exact - shown) <= UnitsPerDegree /\ 2 * (shown - exact) <= UnitsPerDegree

\* C11: a query that matches none of the five filtering intents (help, the
\* location echo, the fallback) is answered, for every location state and
\* every catalog, by a text that holds no count, name or score of a
\* candidate, and onFindNearbyRestrooms is not called.
C11_StaticAnswerNoTrigger ==
    (Processed /\ ~AskedLocationDependent)
        => /\ last.outcome = "replied"
           /\ last.calls = <<>>
           /\ triggers = <<>>
           /\ last.botResponse.count = 0
           /\ last.botResponse.name = ""
           /\ last.botResponse.score = 0
           /\ IF Asked(Kw_help)
              THEN last.botResponse = Static("help", "help")
              ELSE IF Asked(Kw_location) \/ Asked(Kw_where_am_i)
              THEN IF last.hasLoc
                   THEN /\ last.botResponse.kind = "locationEcho"
                        /\ PrintsFourDecimals(last.botResponse.lat, last.loc.lat)
                        /\ PrintsFourDecimals(last.botResponse.lng, last.loc.lng)
                   ELSE last.botResponse = Static("noLocation", "location")
              ELSE last.botResponse = Static("fallback", "fallback")

\* C11 witness: "Where am I" was asked at At(2,0) over a catalog holding a
\* restroom in range: the answer echoes 0.0090 and 0.0000, and no call.
C11_Witness ==
    /\ last.query = Q_WhereAmI /\ last.outcome = "replied"
    /\ last.hasLoc /\ last.loc = At(2, 0)
    /\ FilteredFor("nearby", last.loc) # <<>>
    /\ last.botResponse.kind = "locationEcho"
    /\ last.botResponse.lat = 90 /\ last.botResponse.lng = 0
    /\ triggers = <<>>


\* C12: every message accepted by handleSendMessage is in the transcript as
\* a user message at once and has exactly one reply, computed when it was
\* submitted, that is displayed or waits for its timer (so that a fair timer
\* displays it); onFindNearbyRestrooms is called at most once for a message,
\* and before its reply is displayed.  Stated for the mounted component.
C12_EveryMessageAnswered ==
    mounted
        => /\ UserCount(messages) = (BotCount(messages) - 1) + Len(replyTimers)
           /\ Len(triggers) <= UserCount(messages)
           /\ Processed
                => /\ messages # <<WelcomeMessage>>
                   /\ Len(last.calls) <= 1
                   /\ \/ replyTimers # <<>>
                            /\ replyTimers[Len(replyTimers)] = last.botResponse
                      \/ messages[Len(messages)] = BotMessage(last.botResponse)


\* the intent of a text under the documented priority order
IntentOfText(text) ==
    LET lower == toLowerCase(text)
        Has(keyword) == includes(lower, keyword)
    IN  IF Has(Kw_restroom) \/ Has(Kw_bathroom) \/ Has(Kw_toilet) THEN "nearby"
        ELSE IF Has(Kw_clean) \/ Has(Kw_hygienic) THEN "clean"
        ELSE IF Has(Kw_accessible) \/ Has(Kw_disability) THEN "accessible"
        ELSE IF Has(Kw_baby) \/ Has(Kw_changing) THEN "baby changing"
        ELSE IF Has(Kw_gender) \/ Has(Kw_neutral) THEN "gender neutral"
        ELSE IF Has(Kw_help) THEN "help"
        ELSE IF Has(Kw_location) \/ Has(Kw_where_am_i) THEN "location"
        ELSE "fallback"

\* the positions, in order, of a sender's messages in a transcript
Positions(transcript, sender) ==
    LET From(i) == transcript[i].sender = sender
    IN  SelectSeq([i \in 1..Len(transcript) |-> i], From)

\* The welcome message is first, and the replies after it can be assigned,
\* in order, to user messages in the order of their submission: each reply
\* answers a user message that precedes it, and a later reply answers a
\* later user message.
Ordered(transcript) ==
    LET users == Positions(transcript, "user")
        bots == Tail(Positions(transcript, "bot"))
        asked == [k \in 1..Len(users) |-> IntentOfText(transcript[users[k]].content)]
        answered == [k \in 1..Len(bots) |-> transcript[bots[k]].content.intent]
    IN  /\ transcript[1] = WelcomeMessage
        /\ \E answers \in [1..Len(bots) -> 1..Len(users)] :
              /\ \A k \in 1..Len(bots) :
                    /\ users[answers[k]] < bots[k]
                    /\ answered[k] = asked[answers[k]]
              /\ \A j, k \in 1..Len(bots) : j < k => answers[j] < answers[k]

\* C13: the transcript only grows at its end, by one message at a time; the
\* welcome message stays first; the replies appear in the order in which
\* their user messages were submitted, each after its own user message.
C13_AppendOnlyOrdered ==
    [][/\ messages[1] = WelcomeMessage
       /\ \/ messages' = messages
          \/ /\ Len(messages') = Len(messages) + 1
             /\ SubSeq(messages', 1, Len(messages)) = messages
             /\ Ordered(messages')]_vars

\* C13 witness: "Toilet" and "hello" were both submitted before either
\* reply was displayed, and the replies follow in the same order.
C13_Witness ==
    /\ Len(messages) = 5
    /\ messages[2] = UserMessage(Q_Toilet)
    /\ messages[3] = UserMessage(Q_Hello)
    /\ messages[4].sender = "bot" /\ messages[4].content.intent = "nearby"
    /\ messages[5].sender = "bot" /\ messages[5].content.intent = "fallback"


\* C14: a query sent by the voice timer is classified with the location
\* state of the first render (no permission, the default location), whatever
\* the location state is by then, so a location-dependent voice query is
\* answered "need location" and emits no trigger; a typed query is classified
\* with the current location state, and with permission granted and a
\* restroom in range it gets the located answer and its trigger.
C14_VoiceUsesMountTimeLocation ==
    [][(last' # last /\ last'.outcome = "replied")
         => LET intent == IntentOfText(last'.query)
                filtered == FilteredFor(intent, currentLocation)
            IN  IF last'.via = "voice"
                THEN /\ ~last'.hasLoc
                     /\ last'.loc = defaultLocation
                     /\ intent \in FilteringIntents
                          => /\ last'.botResponse = Static("needLocation", intent)
                             /\ last'.calls = <<>>
                             /\ triggers' = triggers
                ELSE /\ last'.hasLoc = hasLocationPermission
                     /\ last'.loc = currentLocation
                     /\ (hasLocationPermission /\ intent \in FilteringIntents /\ filtered # <<>>)
                          => /\ last'.botResponse.kind = "found"
                             /\ last'.botResponse.count = Len(filtered)
                             /\ Len(triggers') = Len(triggers) + 1]_vars

\* C14 witness: with permission granted, "Toilet" typed was answered with
\* the restroom found and its trigger; then "Toilet" spoken was answered
\* "need location" with no further trigger.
C14_Witness ==
    /\ hasLocationPermission
    /\ currentLocation = At(2, 0)
    /\ Len(messages) >= 3
    /\ messages[2] = UserMessage(Q_Toilet)
    /\ messages[3].sender = "bot" /\ messages[3].content.kind = "found"
    /\ last.via = "voice"
    /\ last.query = Q_Toilet
    /\ last.botResponse = Static("needLocation", "nearby")
    /\ Len(triggers) = 1


\* C15: a route shown on the map is the route to the restroom selected now:
\* while routePath is not empty a restroom is selected, and the steps and
\* the details shown were computed for that restroom.
C15_RouteOfCurrentSelection ==
    Len(routePath) > 0
        => /\ selectedRestroom # NoId
           /\ \A i \in 1..Len(routePath) : routePath[i].destination = selectedRestroom
           /\ routeDetails # null
           /\ routeDetails.distance.destination = selectedRestroom
           /\ routeDetails.duration.destination = selectedRestroom

=============================================================================
